---- MODULE Spec2Model ----
\* Customs tariff codes on products, templates and categories (src/product.py):
\* the stored records, the tariff code resolution with its delegation to the
\* customs category and to the parent category, the saved edits with the
\* constraints the fields declare, the deletions with their cascade to the
\* tariff code links, and the migration step of the module registration.
EXTENDS Integers, Sequences, FiniteSets, TLC

\* ---------------------------------------------------------------- bounds
NCat == 2
NTpl == 1
MaxRegistrations == 2

CatIds == 1..NCat
TplIds == 1..NTpl
ProdIds == 1..NTpl
LinkIds == {1, 2}
\* NULL of a Many2One column; record ids start at 1
None == 0
Sequences == {1, 2}

CategoryModel == "product.category"
TemplateModel == "product.template"

\* ------------------------------------------------- customs.tariff.code
\* The tariff codes and the patterns they are matched against: "A" is the
\* code of heading 84, "B" of the subheading 84.1.
Codes == {"A", "B"}
Patterns == {"84", "84.1"}
NoCode == "None"

match(code, pattern) ==
    \/ code = "A" /\ pattern \in {"84", "84.1"}
    \/ code = "B" /\ pattern = "84.1"

\* ---------------------------------------------------------------- state
VARIABLES
    category,       \* product.category rows: id -> fields
    template,       \* product.template rows: id -> fields
    product,        \* product.product rows: id -> template id (None: no row)
    links,          \* product-customs.tariff.code rows
    category_exists,\* the legacy column "category" of the template table
    registrations,  \* number of module registrations run so far
    migrations,     \* number of times the migration step has run
    last,           \* the last write operation and the error it raised
    call,           \* the last tariff code lookup and what it returned
    stack,          \* the owners whose generators a running lookup has open
    loop,           \* the links the for loop of the innermost one has to visit
    form            \* the category form a client has open, not yet saved

vars == <<category, template, product, links, category_exists,
          registrations, migrations, last, call, stack, loop,
          form>>

NoCategory == [exists |-> FALSE, parent |-> None, customs |-> FALSE,
               tariff_codes_parent |-> FALSE]
NoTemplate == [exists |-> FALSE, customs_category |-> None,
               tariff_codes_category |-> FALSE, category |-> None]
NoOp == [op |-> "none", error |-> ""]
NoCall == [op |-> "none", model |-> "", id |-> None, pattern |-> "",
           err |-> "", codes |-> <<>>, code |-> NoCode]
NoForm == [id |-> None, parent |-> None, customs |-> FALSE,
           tariff_codes_parent |-> FALSE]

\* str(record) of a Category or Template: "<model name>,<id>", the value the
\* Reference column product of a link holds
str(model, id) == <<model, id>>

\* ------------------------------------------------------- tariff_codes
\* the links in creation order, the sequence ignored
LinkBeforeById(a, b) == a.id <= b.id

\* order=[('sequence', 'ASC'), ('id', 'ASC')]
LinkBefore(a, b) ==
    \/ a.sequence < b.sequence
    \/ a.sequence = b.sequence /\ a.id <= b.id

RECURSIVE SortLinks(_)
SortLinks(S) ==
    IF S = {} THEN <<>>
    ELSE LET first == CHOOSE l \in S : \A m \in S : LinkBefore(l, m)
         IN <<first>> \o SortLinks(S \ {first})

\* the One2Many tariff_codes of an owner: its links, in the declared order
tariff_codes(model, id) ==
    SortLinks({l \in links : l.product = str(model, id)})

\* for link in self.tariff_codes: if link.tariff_code.match(pattern): yield
RECURSIVE OwnCodes(_, _)
OwnCodes(ls, pattern) ==
    IF ls = <<>> THEN <<>>
    ELSE IF match(Head(ls).tariff_code, pattern)
         THEN <<Head(ls).tariff_code>> \o OwnCodes(Tail(ls), pattern)
         ELSE OwnCodes(Tail(ls), pattern)

\* the most specific match instead of the first one
MostSpecificOwnCode(ls, pattern) ==
    LET m == OwnCodes(ls, pattern)
    IN IF m = <<>> THEN NoCode
       ELSE IF \E i \in 1..Len(m) : m[i] = "B" THEN "B"
       ELSE Head(m)

\* next() of the same loop: it stops at the first link that matches
RECURSIVE NextOwnCode(_, _)
NextOwnCode(ls, pattern) ==
    IF ls = <<>> THEN NoCode
    ELSE IF match(Head(ls).tariff_code, pattern)
         THEN Head(ls).tariff_code
         ELSE NextOwnCode(Tail(ls), pattern)

Yield(codes) == [err |-> "", codes |-> codes]
Raise(e) == [err |-> e, codes |-> <<>>]
Return(code) == [err |-> "", code |-> code]
RaiseOne(e) == [err |-> e, code |-> NoCode]

\* sys.getrecursionlimit(): the number of nested frames after which Python
\* raises RecursionError, whatever the number of categories
RecursionLimit == 1000

\* the frames left to a lookup called from the top frame of a program
FramesFree == RecursionLimit - 1

\* the frames the read of a field of a record takes: none when the field is
\* a plain attribute; a framework that loads the field on access takes more
ReadFrames == 0

\* the frames a call of link.tariff_code.match takes
MatchFrames == 1

\* the frames the builtin next takes while the generator runs under it: one
\* on the first calls of a call site, none once the interpreter has
\* specialised the call
NextFrames == {0, 1}

\* the frames one iteration of the loop over self.tariff_codes needs: the read
\* of link.tariff_code, then the call of match
LinkFrames == IF ReadFrames > MatchFrames THEN ReadFrames ELSE MatchFrames

\* list() of the loop with room frames left: a loop without link calls nothing
ListOwnCodes(ls, pattern, room) ==
    IF ls # <<>> /\ room < LinkFrames THEN Raise("RecursionError")
    ELSE Yield(OwnCodes(ls, pattern))

\* next() of the same loop
NextOfOwnCodes(ls, pattern, room) ==
    IF ls # <<>> /\ room < LinkFrames THEN RaiseOne("RecursionError")
    ELSE Return(NextOwnCode(ls, pattern))

\* ------------------------------------------------- Category lookups
\* list(c.get_tariff_codes(pattern)) with free frames left: the generator
\* takes one, and what it reads and calls needs the room that is left
RECURSIVE Category_get_tariff_codes(_, _, _)
Category_get_tariff_codes(c, pattern, free) ==
    IF c = None THEN Raise("AttributeError")
    ELSE IF free < 1 + ReadFrames THEN Raise("RecursionError")
    ELSE IF ~category[c].tariff_codes_parent
         THEN ListOwnCodes(tariff_codes(CategoryModel, c), pattern, free - 1)
         ELSE Category_get_tariff_codes(category[c].parent, pattern, free - 1)

\* next() of the generator: the first code it yields, None on StopIteration
RECURSIVE Category_next(_, _, _)
Category_next(c, pattern, free) ==
    IF c = None THEN RaiseOne("AttributeError")
    ELSE IF free < 1 + ReadFrames THEN RaiseOne("RecursionError")
    ELSE IF ~category[c].tariff_codes_parent
         THEN NextOfOwnCodes(tariff_codes(CategoryModel, c), pattern, free - 1)
         ELSE Category_next(category[c].parent, pattern, free - 1)

\* Category.get_tariff_code: its own frame, the nf frames of next, then the
\* generator's
Category_get_tariff_code(c, pattern, free, nf) ==
    Category_next(c, pattern, free - 1 - nf)

\* ------------------------------------------------- Template lookups
\* the template's own matches ahead of the category's
Template_get_tariff_codes_own_first(t, pattern, free) ==
    LET own == OwnCodes(tariff_codes(TemplateModel, t), pattern)
        r == Category_get_tariff_codes(template[t].customs_category, pattern,
                                       free - 1)
    IN IF free < 1 + ReadFrames THEN Raise("RecursionError")
       ELSE IF ~template[t].tariff_codes_category THEN Yield(own)
       ELSE IF r.err # "" THEN r
       ELSE Yield(own \o r.codes)

Template_get_tariff_codes(t, pattern, free) ==
    IF free < 1 + ReadFrames THEN Raise("RecursionError")
    ELSE IF ~template[t].tariff_codes_category
         THEN ListOwnCodes(tariff_codes(TemplateModel, t), pattern, free - 1)
         ELSE Category_get_tariff_codes(template[t].customs_category, pattern,
                                        free - 1)

Template_next(t, pattern, free) ==
    IF free < 1 + ReadFrames THEN RaiseOne("RecursionError")
    ELSE IF ~template[t].tariff_codes_category
         THEN NextOfOwnCodes(tariff_codes(TemplateModel, t), pattern, free - 1)
         ELSE Category_next(template[t].customs_category, pattern, free - 1)

\* Template.get_tariff_code: its own frame, the nf frames of next, then the
\* generator's
Template_get_tariff_code(t, pattern, free, nf) ==
    Template_next(t, pattern, free - 1 - nf)

\* ------------------------------------------------- Product lookups
\* the generator of the product reads self.template and hands over
Product_get_tariff_codes(p, pattern, free) ==
    IF free < 1 + ReadFrames THEN Raise("RecursionError")
    ELSE Template_get_tariff_codes(product[p], pattern, free - 1)

\* Product.get_tariff_code: its own frame, then the template's call
Product_get_tariff_code(p, pattern, free, nf) ==
    IF free < 1 + ReadFrames THEN RaiseOne("RecursionError")
    ELSE Template_get_tariff_code(product[p], pattern, free - 1, nf)

\* ------------------------------------------------- lookup calls
ProductModel == "product.product"

Owners ==
    {<<CategoryModel, c>> : c \in {c \in DOMAIN category : category[c].exists}}
    \cup {<<TemplateModel, t>> : t \in {t \in TplIds : template[t].exists}}
    \cup {<<ProductModel, p>> : p \in {p \in ProdIds : product[p] # None}}

get_tariff_codes(model, id, pattern, free) ==
    IF model = CategoryModel
    THEN Category_get_tariff_codes(id, pattern, free)
    ELSE IF model = TemplateModel
         THEN Template_get_tariff_codes(id, pattern, free)
         ELSE Product_get_tariff_codes(id, pattern, free)

get_tariff_code(model, id, pattern, free, nf) ==
    IF model = CategoryModel
    THEN Category_get_tariff_code(id, pattern, free, nf)
    ELSE IF model = TemplateModel
         THEN Template_get_tariff_code(id, pattern, free, nf)
         ELSE Product_get_tariff_code(id, pattern, free, nf)

\* list(o.get_tariff_codes(pattern)) called from the top frame: list() takes
\* the codes one after the other and runs nothing in between. A lookup reads
\* the rows and writes none, so one lookup per behaviour shows all there is
\* to see of it.
CallGetTariffCodes(o, pattern) ==
    /\ call.op = "none"
    /\ o \in Owners
    /\ LET r == get_tariff_codes(o[1], o[2], pattern, FramesFree)
       IN call' = [op |-> "get_tariff_codes", model |-> o[1], id |-> o[2],
                   pattern |-> pattern, err |-> r.err, codes |-> r.codes,
                   code |-> NoCode]
    /\ UNCHANGED <<category, template, product, links, category_exists,
                   registrations, migrations, last, stack, loop, form>>

\* o.get_tariff_code(pattern) called from the top frame, its call of next
\* specialised or not
CallGetTariffCode(o, pattern) ==
    /\ call.op = "none"
    /\ o \in Owners
    /\ \E nf \in NextFrames :
          LET r == get_tariff_code(o[1], o[2], pattern, FramesFree, nf)
          IN call' = [op |-> "get_tariff_code", model |-> o[1], id |-> o[2],
                      pattern |-> pattern, err |-> r.err, codes |-> <<>>,
                      code |-> r.code]
    /\ UNCHANGED <<category, template, product, links, category_exists,
                   registrations, migrations, last, stack, loop, form>>

AllOwners ==
    ({CategoryModel} \X CatIds) \cup ({TemplateModel} \X TplIds)
    \cup ({ProductModel} \X ProdIds)

\* ------------------------------------------------- stored configurations
\* the category n parents above c in the table cat, None above a root
RECURSIVE Ancestor(_, _, _)
Ancestor(cat, c, n) ==
    IF c = None \/ n = 0 THEN c
    ELSE IF n = 1 THEN cat[c].parent
    ELSE Ancestor(cat, Ancestor(cat, c, n \div 2), n - (n \div 2))

\* every parent chain ends at a root
Acyclic(cat) ==
    \A c \in DOMAIN cat : Ancestor(cat, c, Cardinality(DOMAIN cat)) = None

\* the sets of links with ids 1..n on the given owners
LinkSetsOf(owners, sequences, codes) ==
    UNION {
        {{[id |-> i, product |-> f[i][1], sequence |-> f[i][2],
           tariff_code |-> f[i][3]] : i \in 1..n}
         : f \in [1..n -> owners \X sequences \X codes]}
        : n \in 0..Cardinality(LinkIds)}

LinkSets(owners) == LinkSetsOf(owners, Sequences, Codes)

\* A database in use, one lookup away: the categories form a forest, a
\* category that uses its parent's codes has a parent, one template and its
\* variant exist, and the links belong to the stored records.
InitStored ==
    /\ category \in [CatIds ->
          {r \in [exists : {TRUE}, parent : CatIds \cup {None},
                  customs : {TRUE}, tariff_codes_parent : BOOLEAN] :
              r.tariff_codes_parent => r.parent # None}]
    /\ Acyclic(category)
    /\ \E t \in TplIds, cc \in CatIds \cup {None}, tcc \in BOOLEAN :
          /\ template = [u \in TplIds |->
                IF u = t
                THEN [exists |-> TRUE, customs_category |-> cc,
                      tariff_codes_category |-> tcc, category |-> None]
                ELSE NoTemplate]
          /\ product = [p \in ProdIds |-> IF p = t THEN t ELSE None]
          /\ links \in LinkSets(({CategoryModel} \X CatIds)
                                \cup {<<TemplateModel, t>>})
    /\ category_exists = FALSE
    /\ registrations = 1
    /\ migrations = 0
    /\ last = NoOp
    /\ call = NoCall
    /\ stack = <<>>
    /\ loop = <<>>
    /\ form = NoForm

NextLookup ==
    \E o \in AllOwners, pattern \in Patterns :
        \/ CallGetTariffCodes(o, pattern)
        \/ CallGetTariffCode(o, pattern)

SpecLookup == InitStored /\ [][NextLookup]_vars

\* ------------------------------------------------- lookups, frame by frame
\* The same get_tariff_codes with the frames of its nested generators in the
\* state: the caller iterates over owner.get_tariff_codes(pattern), and the
\* generator of the owner is the first to run.
IterGetTariffCodes(o, pattern) ==
    /\ call.op = "none"
    /\ stack = <<>>
    /\ o \in Owners
    /\ stack' = <<o>>
    /\ call' = [op |-> "iterating", model |-> o[1], id |-> o[2],
                pattern |-> pattern, err |-> "", codes |-> <<>>,
                code |-> NoCode]
    /\ UNCHANGED <<category, template, product, links, category_exists,
                   registrations, migrations, last, loop, form>>

\* the generator of o hands over by yield from
HandsOver(o) ==
    IF o[1] = ProductModel THEN TRUE
    ELSE IF o[1] = TemplateModel THEN template[o[2]].tariff_codes_category
    ELSE category[o[2]].tariff_codes_parent

\* the owner it hands over to
YieldFrom(o) ==
    IF o[1] = ProductModel THEN <<TemplateModel, product[o[2]]>>
    ELSE IF o[1] = TemplateModel
         THEN <<CategoryModel, template[o[2]].customs_category>>
         ELSE <<CategoryModel, category[o[2]].parent>>

\* the lookup ends: the exception, or StopIteration, reaches the caller
EndGetTariffCodes(err) ==
    /\ stack' = <<>>
    /\ loop' = <<>>
    /\ call' = [call EXCEPT !.op = "get_tariff_codes", !.err = err]

\* The innermost generator starts: it opens the generator of the owner it
\* hands over to, or it reads its links and enters its loop, or it raises.
ResumeGetTariffCodes ==
    /\ call.op = "iterating"
    /\ LET o == stack[Len(stack)]
           free == RecursionLimit - Len(stack)
       IN IF free < 1 + ReadFrames THEN EndGetTariffCodes("RecursionError")
          ELSE IF ~HandsOver(o)
               THEN /\ loop' = tariff_codes(o[1], o[2])
                    /\ call' = [call EXCEPT !.op = "looping"]
                    /\ UNCHANGED stack
          ELSE IF YieldFrom(o)[2] = None
               THEN EndGetTariffCodes("AttributeError")
          ELSE /\ stack' = Append(stack, YieldFrom(o))
               /\ UNCHANGED <<call, loop>>
    /\ UNCHANGED <<category, template, product, links, category_exists,
                   registrations, migrations, last, form>>

\* One iteration of the loop of the innermost generator, over the links it
\* has read: the code of a link that matches is yielded through the
\* generators above to the caller, which asks for the next one.
LoopGetTariffCodes ==
    /\ call.op = "looping"
    /\ LET room == RecursionLimit - Len(stack) - 1
       IN IF loop = <<>> THEN EndGetTariffCodes("")
          ELSE IF room < LinkFrames THEN EndGetTariffCodes("RecursionError")
          ELSE /\ loop' = Tail(loop)
               /\ call' = IF match(Head(loop).tariff_code, call.pattern)
                          THEN [call EXCEPT !.codes =
                                   Append(@, Head(loop).tariff_code)]
                          ELSE call
               /\ UNCHANGED stack
    /\ UNCHANGED <<category, template, product, links, category_exists,
                   registrations, migrations, last, form>>

\* A category tree as deep as the interpreter has frames: a chain of n
\* categories, each but the first using the codes of its parent, the first
\* with one link or none.
InitDeep ==
    /\ \E n \in {RecursionLimit - 2, RecursionLimit - 1, RecursionLimit} :
          category = [c \in 1..n |->
              [exists |-> TRUE, parent |-> c - 1, customs |-> TRUE,
               tariff_codes_parent |-> c > 1]]
    /\ template = [t \in TplIds |-> NoTemplate]
    /\ product = [p \in ProdIds |-> None]
    /\ links \in SUBSET {[id |-> 1, product |-> str(CategoryModel, 1),
                           sequence |-> 1, tariff_code |-> "A"]}
    /\ category_exists = FALSE
    /\ registrations = 1
    /\ migrations = 0
    /\ last = NoOp
    /\ call = NoCall
    /\ stack = <<>>
    /\ loop = <<>>
    /\ form = NoForm

\* the categories no category has for parent
Leaves ==
    {c \in DOMAIN category : \A d \in DOMAIN category : category[d].parent # c}

NextDeep ==
    \/ /\ stack = <<>>
       /\ \E c \in Leaves, pattern \in Patterns :
             IterGetTariffCodes(<<CategoryModel, c>>, pattern)
    \/ ResumeGetTariffCodes
    \/ LoopGetTariffCodes

SpecDeep == InitDeep /\ [][NextDeep]_vars

\* ================================================= saved edits
Required == "RequiredValidationError"
Domain == "DomainValidationError"

default_customs == FALSE
default_tariff_codes_parent == FALSE
default_tariff_codes_category == FALSE

\* the value the server answers for customs when parent or customs changes
\* in a form: computed on the rows as they are at the time of the request
on_change_with_customs(parent, customs) ==
    IF parent # None THEN category[parent].customs ELSE customs

\* validation of row c of the category table cat when it is saved: parent is
\* required when tariff_codes_parent is set, and the parent's customs must
\* equal the row's customs
CategoryError(cat, c) ==
    IF cat[c].tariff_codes_parent /\ cat[c].parent = None THEN Required
    ELSE IF cat[c].parent # None
            /\ cat[cat[c].parent].customs # cat[c].customs THEN Domain
    ELSE ""

\* the domain alone, the required state of customs_category left out
TemplateErrorDomainOnly(tpl, t) ==
    IF tpl[t].customs_category # None
       /\ ~category[tpl[t].customs_category].customs THEN Domain
    ELSE ""

\* validation of row t of the template table tpl when it is saved:
\* customs_category is required when tariff_codes_category is set, and must
\* be a category with customs
TemplateError(tpl, t) ==
    IF tpl[t].tariff_codes_category /\ tpl[t].customs_category = None
    THEN Required
    ELSE IF tpl[t].customs_category # None
            /\ ~category[tpl[t].customs_category].customs THEN Domain
    ELSE ""

Installed == registrations >= 1

CreateCategory(c) ==
    /\ Installed
    /\ ~category[c].exists
    /\ category' = [category EXCEPT ![c] =
          [exists |-> TRUE, parent |-> None, customs |-> default_customs,
           tariff_codes_parent |-> default_tariff_codes_parent]]
    /\ last' = [op |-> "create", error |-> ""]
    /\ UNCHANGED <<template, product, links, category_exists, registrations,
                   migrations, call, stack, loop, form>>

\* Category.write of one record, the constraints of the saved record
\* checked: the rows and the outcome
Category_write(c, parent, customs, tcp) ==
    /\ Installed
    /\ category[c].exists
    /\ parent # None => category[parent].exists
    /\ LET new == [category EXCEPT ![c] =
                      [exists |-> TRUE, parent |-> parent, customs |-> customs,
                       tariff_codes_parent |-> tcp]]
           err == CategoryError(new, c)
       IN /\ category' = IF err = "" THEN new ELSE category
          /\ last' = [op |-> "write", error |-> err]
    /\ UNCHANGED <<template, product, links, category_exists, registrations,
                   migrations, call, stack, loop>>

WriteCategory(c, parent, customs, tcp) ==
    /\ Category_write(c, parent, customs, tcp)
    /\ UNCHANGED form

\* A client edits record c in its form. When the edit changes parent or
\* customs the client asks the server for on_change_with_customs and shows
\* the answer; otherwise the form keeps the customs it has read. Nothing is
\* stored, and the form is not refreshed when the rows change afterwards.
EditCategoryForm(c, parent, customs, tcp) ==
    /\ Installed
    /\ category[c].exists
    /\ parent # None => category[parent].exists
    /\ form' = [id |-> c, parent |-> parent,
                customs |-> IF parent = category[c].parent
                               /\ customs = category[c].customs
                            THEN customs
                            ELSE on_change_with_customs(parent, customs),
                tariff_codes_parent |-> tcp]
    /\ UNCHANGED <<category, template, product, links, category_exists,
                   registrations, migrations, last, call, stack, loop>>

\* the client saves the form: a write of the values the form holds
SaveCategoryForm ==
    /\ form # NoForm
    /\ Category_write(form.id, form.parent, form.customs,
                      form.tariff_codes_parent)
    /\ form' = NoForm

CreateTemplate(t) ==
    /\ Installed
    /\ ~template[t].exists
    /\ template' = [template EXCEPT ![t] =
          [exists |-> TRUE, customs_category |-> None,
           tariff_codes_category |-> default_tariff_codes_category,
           category |-> None]]
    /\ product' = [product EXCEPT ![t] = t]
    /\ last' = [op |-> "create", error |-> ""]
    /\ UNCHANGED <<category, links, category_exists, registrations,
                   migrations, call, stack, loop, form>>

\* Template.write of one record, the constraints of the saved record checked
WriteTemplate(t, cc, tcc) ==
    /\ Installed
    /\ template[t].exists
    /\ cc # None => category[cc].exists
    /\ LET new == [template EXCEPT ![t].customs_category = cc,
                                   ![t].tariff_codes_category = tcc]
           err == TemplateError(new, t)
       IN /\ template' = IF err = "" THEN new ELSE template
          /\ last' = [op |-> "write", error |-> err]
    /\ UNCHANGED <<category, product, links, category_exists, registrations,
                   migrations, call, stack, loop, form>>

\* ================================================= deletions
\* Product_TariffCode.search([('product', 'in', products)]): the references
\* are compared whole, the model name and the id
SearchLinksById(products) ==
    {l \in links : \E p \in products : l.product[2] = p[2]}

SearchLinks(products) == {l \in links : l.product \in products}

\* the rows left when the categories S are gone, the references to them NULL
CategoriesWithout(S) ==
    [c \in CatIds |->
        IF c \in S THEN NoCategory
        ELSE IF category[c].parent \in S
             THEN [category[c] EXCEPT !.parent = None]
             ELSE category[c]]

TemplatesWithout(S) ==
    [t \in TplIds |->
        IF ~template[t].exists THEN template[t]
        ELSE [template[t] EXCEPT
                !.customs_category = IF @ \in S THEN None ELSE @,
                !.category = IF @ \in S THEN None ELSE @]]

\* Category.delete: before the rows go, every row that refers to one of
\* them, the rows of S included, is written with the reference set to NULL,
\* and that write validates the row; an error leaves everything as it was
DeleteCategories(S) ==
    /\ Installed
    /\ S # {}
    /\ \A c \in S : category[c].exists
    /\ LET products == {str(CategoryModel, c) : c \in S}
           cat == CategoriesWithout(S)
           tpl == TemplatesWithout(S)
           nulled == [c \in CatIds |->
                         IF category[c].parent \in S
                         THEN [category[c] EXCEPT !.parent = None]
                         ELSE category[c]]
           errs == {CategoryError(nulled, c) :
                       c \in {d \in CatIds : category[d].parent \in S}}
                   \cup {IF tpl[t].tariff_codes_category THEN Required ELSE "" :
                           t \in {u \in TplIds :
                                     template[u].customs_category \in S}}
       IN IF Required \in errs
          THEN /\ last' = [op |-> "delete", error |-> Required]
               /\ UNCHANGED <<category, template, links>>
          ELSE /\ category' = cat
               /\ template' = tpl
               /\ links' = links \ SearchLinks(products)
               /\ last' = [op |-> "delete", error |-> ""]
    /\ UNCHANGED <<product, category_exists, registrations, migrations, call,
                   stack, loop, form>>

DeleteTemplates(S) ==
    /\ Installed
    /\ S # {}
    /\ \A t \in S : template[t].exists
    /\ LET products == {str(TemplateModel, t) : t \in S}
       IN /\ template' = [t \in TplIds |->
                            IF t \in S THEN NoTemplate ELSE template[t]]
          /\ product' = [p \in ProdIds |->
                            IF product[p] \in S THEN None ELSE product[p]]
          /\ links' = links \ SearchLinks(products)
          /\ last' = [op |-> "delete", error |-> ""]
    /\ UNCHANGED <<category, category_exists, registrations, migrations, call,
                   stack, loop, form>>

\* ================================================= module registration
\* the migration step with only the categories some template's legacy column
\* names marked
RegisterMarkReferenced ==
    /\ registrations < MaxRegistrations
    /\ registrations' = registrations + 1
    /\ IF category_exists
       THEN /\ category' = [c \in CatIds |->
                  IF \E t \in TplIds :
                        template[t].exists /\ template[t].category = c
                  THEN [category[c] EXCEPT !.customs = TRUE]
                  ELSE category[c]]
            /\ template' = [t \in TplIds |->
                  IF template[t].exists
                  THEN [template[t] EXCEPT
                          !.customs_category = template[t].category]
                  ELSE template[t]]
            /\ migrations' = migrations + 1
       ELSE UNCHANGED <<category, template, migrations>>
    /\ last' = [op |-> "register", error |-> ""]
    /\ UNCHANGED <<product, links, category_exists, call, stack, loop, form>>

\* Template.__register__: when the table has the column "category", every
\* category row gets customs = TRUE and every template row gets
\* customs_category = category; the column is left in place
Register ==
    /\ registrations < MaxRegistrations
    /\ registrations' = registrations + 1
    /\ IF category_exists
       THEN /\ category' = [c \in CatIds |->
                  IF category[c].exists
                  THEN [category[c] EXCEPT !.customs = TRUE]
                  ELSE category[c]]
            /\ template' = [t \in TplIds |->
                  IF template[t].exists
                  THEN [template[t] EXCEPT
                          !.customs_category = template[t].category]
                  ELSE template[t]]
            /\ migrations' = migrations + 1
       ELSE UNCHANGED <<category, template, migrations>>
    /\ last' = [op |-> "register", error |-> ""]
    /\ UNCHANGED <<product, links, category_exists, call, stack, loop, form>>

\* ================================================= specifications
\* Before the module is registered: a new database, or one of series 3.8
\* whose template table has the column "category"; the columns the module
\* adds hold their defaults.
Init ==
    /\ category_exists \in BOOLEAN
    /\ \E C \in SUBSET CatIds :
          /\ ~category_exists => C = {}
          /\ category = [c \in CatIds |->
                IF c \in C
                THEN [exists |-> TRUE, parent |-> None,
                      customs |-> default_customs,
                      tariff_codes_parent |-> default_tariff_codes_parent]
                ELSE NoCategory]
          /\ \E T \in SUBSET TplIds :
                /\ ~category_exists => T = {}
                /\ \E legacy \in [T -> C \cup {None}] :
                      template = [t \in TplIds |->
                          IF t \in T
                          THEN [exists |-> TRUE, customs_category |-> None,
                                tariff_codes_category |->
                                    default_tariff_codes_category,
                                category |-> legacy[t]]
                          ELSE NoTemplate]
                /\ product = [p \in ProdIds |-> IF p \in T THEN p ELSE None]
    /\ links = {}
    /\ registrations = 0
    /\ migrations = 0
    /\ last = NoOp
    /\ call = NoCall
    /\ stack = <<>>
    /\ loop = <<>>
    /\ form = NoForm

Next ==
    \/ Register
    \/ \E c \in CatIds : CreateCategory(c)
    \/ \E c \in CatIds, parent \in CatIds \cup {None},
          customs \in BOOLEAN, tcp \in BOOLEAN :
          \/ WriteCategory(c, parent, customs, tcp)
          \/ EditCategoryForm(c, parent, customs, tcp)
    \/ SaveCategoryForm
    \/ \E t \in TplIds : CreateTemplate(t)
    \/ \E t \in TplIds, cc \in CatIds \cup {None}, tcc \in BOOLEAN :
          WriteTemplate(t, cc, tcc)
    \/ \E S \in SUBSET CatIds : DeleteCategories(S)
    \/ \E S \in SUBSET TplIds : DeleteTemplates(S)

Spec == Init /\ [][Next]_vars

\* a new database: no legacy column, no rows
InitNew == Init /\ ~category_exists

SpecEdit == InitNew /\ [][Next]_vars

\* An upgraded installation in use: the registrations, and the edits of the
\* customs fields of the rows it holds.
NextUpgrade ==
    \/ Register
    \/ \E c \in CatIds, customs \in BOOLEAN :
          WriteCategory(c, category[c].parent, customs,
                        category[c].tariff_codes_parent)
    \/ \E t \in TplIds, cc \in CatIds \cup {None}, tcc \in BOOLEAN :
          WriteTemplate(t, cc, tcc)

SpecUpgrade == Init /\ [][NextUpgrade]_vars

\* A database in use, one save away: categories with any customs flags, one
\* template, the required fields present.
InitSaved ==
    /\ category \in [CatIds ->
          {r \in [exists : {TRUE}, parent : CatIds \cup {None},
                  customs : BOOLEAN, tariff_codes_parent : BOOLEAN] :
              r.tariff_codes_parent => r.parent # None}]
    /\ Acyclic(category)
    /\ \E t \in TplIds, cc \in CatIds \cup {None}, tcc \in BOOLEAN :
          /\ tcc => cc # None
          /\ template = [u \in TplIds |->
                IF u = t
                THEN [exists |-> TRUE, customs_category |-> cc,
                      tariff_codes_category |-> tcc, category |-> None]
                ELSE NoTemplate]
          /\ product = [p \in ProdIds |-> IF p = t THEN t ELSE None]
    /\ links = {}
    /\ category_exists = FALSE
    /\ registrations = 1
    /\ migrations = 0
    /\ last = NoOp
    /\ call = NoCall
    /\ stack = <<>>
    /\ loop = <<>>
    /\ form = NoForm

NextSave ==
    /\ last = NoOp
    /\ \/ \E c \in CatIds, parent \in CatIds \cup {None},
             customs \in BOOLEAN, tcp \in BOOLEAN :
             \/ WriteCategory(c, parent, customs, tcp)
             \/ EditCategoryForm(c, parent, customs, tcp)
       \/ SaveCategoryForm
       \/ \E t \in TplIds, cc \in CatIds \cup {None}, tcc \in BOOLEAN :
             WriteTemplate(t, cc, tcc)

SpecSave == InitSaved /\ [][NextSave]_vars

\* A database in use whose records are about to be deleted: as InitStored,
\* with any templates, with or without customs category, one that uses the
\* codes of its category having one, and links on all the records. A delete
\* reads the owner of a link only, so the links all have the same sequence
\* and the same code.
InitDelete ==
    /\ category \in [CatIds ->
          {r \in [exists : {TRUE}, parent : CatIds \cup {None},
                  customs : {TRUE}, tariff_codes_parent : BOOLEAN] :
              r.tariff_codes_parent => r.parent # None}]
    /\ Acyclic(category)
    /\ \E T \in SUBSET TplIds :
          /\ template \in [TplIds ->
                {r \in [exists : BOOLEAN, customs_category : CatIds \cup {None},
                        tariff_codes_category : BOOLEAN, category : {None}] :
                    /\ ~r.exists => r = NoTemplate
                    /\ r.tariff_codes_category => r.customs_category # None}]
          /\ T = {t \in TplIds : template[t].exists}
          /\ product = [p \in ProdIds |-> IF p \in T THEN p ELSE None]
          /\ links \in LinkSetsOf(({CategoryModel} \X CatIds)
                                  \cup ({TemplateModel} \X T), {1}, {"A"})
    /\ category_exists = FALSE
    /\ registrations = 1
    /\ migrations = 0
    /\ last = NoOp
    /\ call = NoCall
    /\ stack = <<>>
    /\ loop = <<>>
    /\ form = NoForm

NextDelete ==
    \/ \E S \in SUBSET CatIds : DeleteCategories(S)
    \/ \E S \in SUBSET TplIds : DeleteTemplates(S)

SpecDelete == InitDelete /\ [][NextDelete]_vars

\* ================================================= lookups: properties
OwnLinks(model, id) == {l \in links : l.product = str(model, id)}

StrictlyBefore(a, b) ==
    \/ a.sequence < b.sequence
    \/ a.sequence = b.sequence /\ a.id < b.id

TemplateOf(model, id) == IF model = ProductModel THEN product[id] ELSE id

Delegates(model, id) ==
    IF model = CategoryModel THEN category[id].tariff_codes_parent
    ELSE template[TemplateOf(model, id)].tariff_codes_category

\* C1: a template that uses its category's codes yields what its customs
\* category yields, a category that uses its parent's codes yields what its
\* parent yields: same outcome, same codes, same order, nothing of its own.
\* The category is asked as the owner asks it, one frame down.
DelegationIsTransparent ==
    call.op = "get_tariff_codes" =>
        /\ (call.model = TemplateModel
            /\ template[call.id].tariff_codes_category) =>
              LET r == Category_get_tariff_codes(
                           template[call.id].customs_category, call.pattern,
                           FramesFree - 1)
              IN call.err = r.err /\ call.codes = r.codes
        /\ (call.model = CategoryModel
            /\ category[call.id].tariff_codes_parent) =>
              LET r == Category_get_tariff_codes(
                           category[call.id].parent, call.pattern,
                           FramesFree - 1)
              IN call.err = r.err /\ call.codes = r.codes

\* a delegating template with a matching link of its own ("A") got the one
\* code of its category ("B")
DelegationWitness ==
    /\ call.op = "get_tariff_codes"
    /\ call.model = TemplateModel
    /\ template[call.id].tariff_codes_category
    /\ \E l \in OwnLinks(TemplateModel, call.id) :
          l.tariff_code = "A" /\ match("A", call.pattern)
    /\ call.err = ""
    /\ call.codes = <<"B">>

\* C2: an owner that does not delegate yields the codes of exactly its own
\* matching links, one per link, by ascending (sequence, id).
OwnMatchesInOrder ==
    (call.op = "get_tariff_codes" /\ call.model # ProductModel
     /\ ~Delegates(call.model, call.id)) =>
        LET M == {l \in OwnLinks(call.model, call.id) :
                      match(l.tariff_code, call.pattern)}
        IN /\ call.err = ""
           /\ Len(call.codes) = Cardinality(M)
           /\ \E f \in [1..Cardinality(M) -> M] :
                /\ \A i, j \in 1..Cardinality(M) :
                      i < j => StrictlyBefore(f[i], f[j])
                /\ \A i \in 1..Cardinality(M) :
                      call.codes[i] = f[i].tariff_code

\* two matching links of one template, the later created one with the lower
\* sequence, yielded first
OwnMatchesWitness ==
    /\ call.op = "get_tariff_codes"
    /\ call.model = TemplateModel
    /\ ~template[call.id].tariff_codes_category
    /\ \E a, b \in OwnLinks(TemplateModel, call.id) :
          /\ a.id < b.id /\ a.sequence > b.sequence
          /\ a.tariff_code = "A" /\ b.tariff_code = "B"
    /\ call.codes = <<"B", "A">>

\* C3: get_tariff_code returns the first code get_tariff_codes yields on the
\* same owner, None when it yields nothing, and fails as it fails; a product
\* returns what its template returns. The sequence is the one get_tariff_code
\* iterates over, below its own frame and the frames of next.
FirstCodeWins ==
    call.op = "get_tariff_code" =>
        \E nf \in NextFrames :
            LET r == get_tariff_codes(call.model, call.id, call.pattern,
                                      FramesFree - 1 - nf)
            IN /\ call.err = r.err
               /\ call.code = IF r.err # "" \/ r.codes = <<>> THEN NoCode
                              ELSE Head(r.codes)
               /\ call.model = ProductModel =>
                    LET t == Template_get_tariff_code(product[call.id],
                                                      call.pattern,
                                                      FramesFree - 1, nf)
                    IN call.err = t.err /\ call.code = t.code

\* sequence 1 -> "A", sequence 2 -> "B", both match "84.1": "A" is returned
FirstCodeWitness ==
    /\ call.op = "get_tariff_code"
    /\ call.model = ProductModel
    /\ call.pattern = "84.1"
    /\ ~template[product[call.id]].tariff_codes_category
    /\ \E a, b \in OwnLinks(TemplateModel, product[call.id]) :
          /\ a.sequence = 1 /\ a.tariff_code = "A"
          /\ b.sequence = 2 /\ b.tariff_code = "B"
    /\ call.code = "A"

\* the required-field constraints hold and the categories form a forest
SavedConfiguration ==
    /\ \A t \in TplIds :
          (template[t].exists /\ template[t].tariff_codes_category)
              => template[t].customs_category # None
    /\ \A c \in DOMAIN category :
          (category[c].exists /\ category[c].tariff_codes_parent)
              => category[c].parent # None
    /\ Acyclic(category)

\* the category a lookup on c ends at within n delegations: the first one up
\* the chain that does not use its parent's codes
RECURSIVE LastCategory(_, _)
LastCategory(c, n) ==
    IF c = None \/ n = 0 THEN c
    ELSE IF ~category[c].tariff_codes_parent THEN c
    ELSE IF n = 1 THEN category[c].parent
    ELSE LastCategory(LastCategory(c, n \div 2), n - (n \div 2))

LastOwner(model, id) ==
    IF model = CategoryModel
    THEN str(CategoryModel,
             LastCategory(id, Cardinality(DOMAIN category)))
    ELSE IF template[TemplateOf(model, id)].tariff_codes_category
         THEN str(CategoryModel,
                  LastCategory(template[TemplateOf(model, id)].customs_category,
                               Cardinality(DOMAIN category)))
         ELSE str(TemplateModel, TemplateOf(model, id))

\* C7: on a saved configuration get_tariff_codes raises nothing, and yields
\* no more codes than the first owner of its delegation chain that does not
\* delegate has links.
LookupTerminates ==
    call.op = "get_tariff_codes" =>
        \/ /\ call.err = ""
           /\ Len(call.codes)
                <= Cardinality({l \in links :
                                  l.product = LastOwner(call.model, call.id)})
        \/ ~SavedConfiguration

\* ================================================= edits: properties
\* C5: every category that has a parent has its parent's customs value.
ChildCustomsFollowsParent ==
    \A c \in CatIds :
        (category[c].exists /\ category[c].parent # None)
            => category[c].customs = category[category[c].parent].customs

\* C8: the customs category of every template is a category with customs.
CustomsCategoryHasCustoms ==
    \A t \in TplIds :
        (template[t].exists /\ template[t].customs_category # None)
            => category[template[t].customs_category].customs

\* no stored template delegates to a missing category, no stored category to
\* a missing parent
DelegationTargetPresent ==
    /\ \A t \in TplIds :
          (template[t].exists /\ template[t].tariff_codes_category)
              => template[t].customs_category # None
    /\ \A c \in CatIds :
          (category[c].exists /\ category[c].tariff_codes_parent)
              => category[c].parent # None

\* C6: a save that would store a delegating template without customs
\* category, or a delegating category without parent, raises the
\* required-field error and changes no row; so what a save stores never
\* delegates to a missing category or parent.
SaveRejectsMissingTarget ==
    [][last'.op = "write" =>
          /\ last'.error = Required
                => UNCHANGED <<category, template, product, links>>
          /\ DelegationTargetPresent => DelegationTargetPresent']_vars

\* a save was refused for a missing required field
SaveRejectedWitness ==
    /\ last = [op |-> "write", error |-> Required]
    /\ DelegationTargetPresent
    /\ \E t \in TplIds :
          template[t].exists /\ ~template[t].tariff_codes_category
          /\ template[t].customs_category = None

\* C10: the migration step runs at most once per installation, never on one
\* without the legacy column, and a later registration leaves the rows as
\* they are.
MigrationRunsOnce ==
    [][/\ migrations' <= 1
       /\ ~category_exists => migrations' = 0
       /\ (last'.op = "register" /\ registrations >= 1)
             => category' = category /\ template' = template]_vars

\* ================================================= deletions: properties
\* the references of the records a step removes
Removed ==
    {str(CategoryModel, c) :
        c \in {d \in CatIds : category[d].exists /\ ~category'[d].exists}}
    \cup {str(TemplateModel, t) :
        t \in {u \in TplIds : template[u].exists /\ ~template'[u].exists}}

\* C4: a deletion removes the links whose owner reference is one of the
\* deleted records, and no other link.
DeleteRemovesOwnedLinks ==
    [][links' = {l \in links : l.product \notin Removed}]_vars

\* category 1 went with its link; the link of template 1 and category 2 stay
DeleteWitness ==
    /\ last = [op |-> "delete", error |-> ""]
    /\ ~category[1].exists
    /\ \A c \in CatIds \ {1} : category[c].exists
    /\ template[1].exists
    /\ links = {l \in links : l.id = 2 /\ l.product = str(TemplateModel, 1)}
    /\ links # {}

\* ================================================= registration: properties
LegacyReferenced(c) ==
    \E t \in TplIds : template[t].exists /\ template[t].category = c

MigrationCopiesLegacyCategory ==
    \A t \in TplIds :
        template[t].exists
            => template'[t].customs_category = template[t].category

\* C9 as stated: the migration step copies the legacy column into
\* customs_category and marks the categories that column names, and only
\* those.
MigrationMarksOnlyReferenced ==
    [][migrations' = migrations + 1 =>
          /\ MigrationCopiesLegacyCategory
          /\ \A c \in CatIds :
                category[c].exists =>
                    category'[c].customs =
                        (LegacyReferenced(c) \/ category[c].customs)]_vars

\* C9 amended: the migration step copies the legacy column into
\* customs_category and marks every category, named by that column or not.
MigrationMarksEveryCategory ==
    [][migrations' = migrations + 1 =>
          /\ MigrationCopiesLegacyCategory
          /\ \A c \in CatIds : category[c].exists => category'[c].customs]_vars

\* the first registration of a 3.8 database: a template got its legacy
\* category, and a category no template names is marked too
MigrationWitness ==
    /\ last.op = "register"
    /\ registrations = 1
    /\ migrations = 1
    /\ \E t \in TplIds :
          /\ template[t].exists
          /\ template[t].customs_category # None
          /\ template[t].customs_category = template[t].category
    /\ \E c \in CatIds :
          category[c].exists /\ category[c].customs /\ ~LegacyReferenced(c)

====
